---- MODULE Spec2Model ----
(***************************************************************************)
(* Model of chat-server/server.ts: the user and chat collections, the      *)
(* Socket.IO rooms, and the REST and socket handlers.  Every await of a    *)
(* handler is a suspension point: one action is one store operation plus   *)
(* the synchronous code that runs until the next store operation is        *)
(* issued.  A broadcast that follows an await is an action of its own.     *)
(***************************************************************************)
EXTENDS Integers, Sequences, FiniteSets, TLC

VARIABLES users, chats, sock, rooms, inbox, handlers, now

vars == <<users, chats, sock, rooms, inbox, handlers, now>>

\* Number of client events of a run: socket events and REST requests.
\* Connecting and disconnecting are not counted.
MaxEvents == 2

\* Number of requests of a run of the REST surface alone, and its last clock tick.
MaxRequests == 3

\* Number of socket events of a run of the rooms alone.
MaxRoomEvents == 3
MaxTime == 3

Emails == {"a", "b", "c"}
\* Socket connections, numbered in the order they are made; the third one is
\* made only in runs of the rooms alone, as a client's reconnection.
Conns == {1, 2, 3}
FirstConns == {1, 2}

\* Inputs of the handlers.
ParticipantLists == {<<"a", "b">>, <<"b", "a">>, <<"a", "b", "c">>, <<"a", "b", "a">>}
Registrants == {"a", "b"}
\* Request bodies of POST /register; "" is a field the body does not have.
RegisterBodies ==
    {[email |-> "a", password |-> "pw"], [email |-> "b", password |-> "pw"],
     [email |-> "", password |-> "pw"], [email |-> "a", password |-> ""]}
Senders == {"a", "c"}
SendIds == {"id1", "id2"}
JoinKeys == {"id1", "b"}
SocketEmails == {"a", "b"}

\* The ObjectId of the n-th document inserted into the chat collection.
ObjectId(n) == <<"id1", "id2", "id3", "id4", "id5", "id6">>[n]

SeqToSet(s) == {s[k] : k \in 1..Len(s)}

\* ---------------------------------------------------------------- store

\* User.findOne({ email }): the first matching document, 0 for null.
FindOneUser(email) ==
    LET m == {k \in 1..Len(users) : users[k].email = email}
    IN IF m = {} THEN 0 ELSE CHOOSE k \in m : \A j \in m : k <= j

\* Mutant: the stored list compared with the requested list, order and all.
ChatMatchesInOrder(chat, participants) == chat.participants = participants

\* participants: { $all: participants }, $size of the stored list = participants.length
ChatMatches(chat, participants) ==
    /\ participants # <<>>
    /\ SeqToSet(participants) \subseteq SeqToSet(chat.participants)
    /\ Len(chat.participants) = Len(participants)

\* Chat.findOne of create_chat: the first matching document, 0 for null.
FindOneChat(participants) ==
    LET m == {k \in 1..Len(chats) : ChatMatches(chats[k], participants)}
    IN IF m = {} THEN 0 ELSE CHOOSE k \in m : \A j \in m : k <= j

\* Chat.findById(chatId): index of the document, 0 for null.
FindById(chatId) ==
    LET m == {k \in 1..Len(chats) : chats[k]._id = chatId}
    IN IF m = {} THEN 0 ELSE CHOOSE k \in m : TRUE

\* Chat.find({ _id: { $in: ids } }): the documents in the collection's order.
RECURSIVE FindChatsFrom(_, _)
FindChatsFrom(k, ids) ==
    IF k > Len(chats) THEN <<>>
    ELSE (IF chats[k]._id \in SeqToSet(ids) THEN <<chats[k]>> ELSE <<>>)
         \o FindChatsFrom(k + 1, ids)

FindChats(ids) == FindChatsFrom(1, ids)

\* participants.filter(p => p !== email)
RECURSIVE Filter(_, _)
Filter(participants, email) ==
    IF participants = <<>> THEN <<>>
    ELSE (IF Head(participants) # email THEN <<Head(participants)>> ELSE <<>>)
         \o Filter(Tail(participants), email)

Placeholder == [text |-> "", timestamp |-> "null"]

\* Mutant: the summary shows the first message of the chat.
LastMessageFirst(chat) ==
    IF Len(chat.messages) > 0 THEN chat.messages[1] ELSE Placeholder

\* chat.messages[chat.messages.length - 1] || { text: '', timestamp: null }
LastMessage(chat) ==
    IF Len(chat.messages) > 0 THEN chat.messages[Len(chat.messages)] ELSE Placeholder

\* chats.map(chat => ({ chatId, participants minus email, lastMessage }))
ChatList(docs, email) ==
    [k \in 1..Len(docs) |->
        [chatId |-> docs[k]._id,
         participants |-> Filter(docs[k].participants, email),
         lastMessage |-> LastMessage(docs[k])]]

NoDoc == [_id |-> "none", participants |-> <<>>, messages |-> <<>>]

\* --------------------------------------------------------------- tokens

JWT_SECRET == "yourSecretKey"

\* expiresIn: '1h', in ticks of the clock: one tick is half an hour.
ExpiresIn == 2

\* What split(' ')[1] gives for a header without a second word.
NoToken == [form |-> "undefined", email |-> "", iat |-> 0, exp |-> 0, key |-> ""]

\* jwt.sign({ email }, key, { expiresIn: '1h' }) at the time clock.
Sign(email, key, clock) ==
    [form |-> "jwt", email |-> email, iat |-> clock, exp |-> clock + ExpiresIn,
     key |-> key]

\* Tokens a client can present without a login: a string that is no JWT, a
\* JWT signed with another key, and JWTs made with the secret of the source:
\* one without an email claim, one for an email without a user record.
ForgedTokens ==
    {[form |-> "garbage", email |-> "", iat |-> 0, exp |-> 0, key |-> ""],
     Sign("b", "otherKey", 0), Sign("", JWT_SECRET, 0), Sign("c", JWT_SECRET, 0)}

\* The Authorization header as its words: absent, the scheme alone, or the
\* scheme and a token.
Authorizations(tokens) ==
    {<<>>, <<"Bearer">>} \cup {<<"Bearer", t>> : t \in tokens}

\* req.headers.authorization?.split(' ')[1]
TokenOf(header) == IF Len(header) >= 2 THEN header[2] ELSE NoToken

\* jwt.verify(token, key): format, signature, then clockTimestamp >= exp
JwtVerify(token, key, clock) ==
    /\ token.form = "jwt"
    /\ token.key = key
    /\ clock < token.exp

\* Mutant: the token is decoded without a check of its expiry.
VerifyTokenIgnoreExpiration(header, clock) ==
    LET token == TokenOf(header)
    IN IF token = NoToken THEN [status |-> 401, email |-> ""]
       ELSE IF token.form # "jwt" \/ token.key # JWT_SECRET \/ token.email = ""
       THEN [status |-> 403, email |-> ""]
       ELSE [status |-> 0, email |-> token.email]

\* Mutant: a token without an email claim passes the middleware.
VerifyTokenAnyPayload(header, clock) ==
    LET token == TokenOf(header)
    IN IF token = NoToken THEN [status |-> 401, email |-> ""]
       ELSE IF ~JwtVerify(token, JWT_SECRET, clock)
       THEN [status |-> 403, email |-> ""]
       ELSE [status |-> 0, email |-> token.email]

\* verifyToken: status 0 stands for next(), with req.user.email
VerifyToken(header, clock) ==
    LET token == TokenOf(header)
    IN IF token = NoToken THEN [status |-> 401, email |-> ""]
       ELSE IF ~JwtVerify(token, JWT_SECRET, clock) \/ token.email = ""
       THEN [status |-> 403, email |-> ""]
       ELSE [status |-> 0, email |-> token.email]

\* ---------------------------------------------------------------- rooms

\* io.to(room).emit(type, payload): one delivery to every socket in the room.
Deliver(ib, room, ev, type, payload) ==
    [c \in Conns |->
        IF sock[c] = "open" /\ room \in rooms[c]
        THEN Append(ib[c], [ev |-> ev, type |-> type, payload |-> payload])
        ELSE ib[c]]

\* Mutant: io.emit, which reaches every connected socket.
DeliverToAll(ib, c, ev, type, payload) ==
    [d \in Conns |->
        IF sock[d] = "open"
        THEN Append(ib[d], [ev |-> ev, type |-> type, payload |-> payload])
        ELSE ib[d]]

\* socket.emit(type, payload): to the one socket, dropped once it is closed.
DeliverTo(ib, c, ev, type, payload) ==
    [d \in Conns |->
        IF d = c /\ sock[c] = "open"
        THEN Append(ib[d], [ev |-> ev, type |-> type, payload |-> payload])
        ELSE ib[d]]

\* bcrypt.hash(password, 10)
Hash(password) == <<"bcrypt", password>>

\* The database outlives the server process: the server starts over an empty
\* database, or over the one an earlier run left after POST /register of "b"
\* and create_chat of ["a", "b"].
EmptyStore == [users |-> <<>>, chats |-> <<>>]

EarlierStore ==
    [users |-> <<[email |-> "b", password |-> Hash("pw"), chats |-> <<"id1">>]>>,
     chats |-> <<[_id |-> "id1", participants |-> <<"a", "b">>, messages |-> <<>>]>>]

Init ==
    /\ \E store \in {EmptyStore, EarlierStore} :
          users = store.users /\ chats = store.chats
    /\ sock = [c \in Conns |-> "none"]
    /\ rooms = [c \in Conns |-> {}]
    /\ inbox = [c \in Conns |-> <<>>]
    /\ handlers = <<>>
    /\ now = 0

\* io.on('connection'): sockets connect in the order of their numbers.
Connect(c) ==
    /\ sock[c] = "none"
    /\ \A d \in Conns : d < c => sock[d] # "none"
    /\ sock' = [sock EXCEPT ![c] = "open"]
    /\ UNCHANGED <<users, chats, rooms, inbox, handlers, now>>

\* ------------------------------------------------------------- handlers

\* A handler invocation: its arguments and the locals that live across awaits.
\* out is the list of the events it has emitted; solo tells that no other
\* handler was running at any time between its start and its end.
Blank ==
    [kind |-> "", conn |-> 0, pc |-> "done", participants |-> <<>>, i |-> 0,
     existing |-> NoDoc, found |-> FALSE, user |-> 0, userChats |-> <<>>,
     chatList |-> <<>>, chatId |-> "", sender |-> "", text |-> "", email |-> "",
     status |-> 0, out |-> <<>>, solo |-> TRUE, authorization |-> <<>>,
     token |-> NoToken]

\* The locals of a handler are gone when it returns; its arguments, the chat it
\* resolved, its response and the events it emitted are kept.
Done(r) ==
    [r EXCEPT !.pc = "done", !.i = 0, !.user = 0, !.userChats = <<>>, !.chatList = <<>>]

Running(k) == handlers[k].pc \notin {"done", "failed"}

StartedWithin(rec, max) ==
    /\ Len(handlers) < max
    /\ handlers' =
         Append([k \in 1..Len(handlers) |->
                    IF Running(k) THEN [handlers[k] EXCEPT !.solo = FALSE]
                    ELSE handlers[k]],
                [rec EXCEPT !.solo = \A k \in 1..Len(handlers) : ~Running(k)])

Started(rec) == StartedWithin(rec, MaxEvents)

\* A handler without an await: it runs to its end when the event arrives.
HandledWithin(rec, max) ==
    /\ Len(handlers) < max
    /\ handlers' = Append(handlers, rec)

Handled(rec) == HandledWithin(rec, MaxEvents)

\* A socket handler has no try block: when the store rejects the operation it
\* awaits, the handler stops there and the operation has no effect.
Failed(r) ==
    [r EXCEPT !.pc = "failed", !.i = 0, !.user = 0, !.userChats = <<>>, !.chatList = <<>>]

StoreSteps ==
    {"find", "save", "link_find", "link_save", "fan_user", "fan_chats",
     "find_chat", "save_msg"}

\* Mutant: a create_chat that fails takes back the chat it stored.
FailWithRollback(h) ==
    /\ handlers[h].pc \in StoreSteps
    /\ handlers' = [handlers EXCEPT ![h] = Failed(handlers[h])]
    /\ chats' = IF handlers[h].kind = "create_chat" /\ ~handlers[h].found
                   /\ handlers[h].existing # NoDoc
                THEN SubSeq(chats, 1, FindById(handlers[h].existing._id) - 1)
                ELSE chats
    /\ UNCHANGED <<users, sock, rooms, inbox, now>>

Fail(h) ==
    /\ handlers[h].pc \in StoreSteps
    /\ handlers' = [handlers EXCEPT ![h] = Failed(handlers[h])]
    /\ UNCHANGED <<users, chats, sock, rooms, inbox, now>>

\* catch (error) { res.status(500) } of the REST handlers
ServerError(h) ==
    /\ handlers[h].pc \in {"reg_find", "reg_save", "login_find", "get_user", "get_chats"}
    /\ handlers' = [handlers EXCEPT ![h] = Done([handlers[h] EXCEPT !.status = 500])]
    /\ UNCHANGED <<users, chats, sock, rooms, inbox, now>>

\* Mutant: the closed socket stays in the rooms it joined.
DisconnectStaysJoined(c) ==
    /\ sock[c] = "open"
    /\ sock' = [sock EXCEPT ![c] = "closed"]
    /\ UNCHANGED <<users, chats, rooms, inbox, handlers, now>>

\* The transport drops the socket from every room.
Disconnect(c) ==
    /\ sock[c] = "open"
    /\ sock' = [sock EXCEPT ![c] = "closed"]
    /\ rooms' = [rooms EXCEPT ![c] = {}]
    /\ UNCHANGED <<users, chats, inbox, handlers, now>>

\* socket.on('register_socket', ({ email }) => socket.join(email))
RegisterSocket(c, email) ==
    /\ sock[c] = "open"
    /\ rooms' = [rooms EXCEPT ![c] = @ \cup {email}]
    /\ HandledWithin([Blank EXCEPT !.kind = "register_socket", !.conn = c,
                                   !.email = email], MaxRoomEvents)
    /\ UNCHANGED <<users, chats, sock, inbox, now>>

\* Mutant: the socket joins only when it is registered under a participant.
JoinChatParticipantsOnly(c, chatId) ==
    /\ sock[c] = "open"
    /\ LET m == FindById(chatId)
           member == m # 0 /\ rooms[c] \cap SeqToSet(chats[m].participants) # {}
       IN rooms' = [rooms EXCEPT ![c] = IF member THEN @ \cup {chatId} ELSE @]
    /\ Handled([Blank EXCEPT !.kind = "join_chat", !.conn = c, !.chatId = chatId])
    /\ UNCHANGED <<users, chats, sock, inbox, now>>

\* socket.on('join_chat', async ({ chatId }) => socket.join(chatId))
JoinChat(c, chatId) ==
    /\ sock[c] = "open"
    /\ rooms' = [rooms EXCEPT ![c] = @ \cup {chatId}]
    /\ HandledWithin([Blank EXCEPT !.kind = "join_chat", !.conn = c,
                                   !.chatId = chatId], MaxRoomEvents)
    /\ UNCHANGED <<users, chats, sock, inbox, now>>

Emitted(r, type, to, payload) ==
    [r EXCEPT !.out = Append(@, [type |-> type, to |-> to, payload |-> payload])]

\* --- socket.on('create_chat', async ({ participants }) => ...)

CreateChat(c, participants) ==
    /\ sock[c] = "open"
    /\ StartedWithin([Blank EXCEPT !.kind = "create_chat", !.conn = c, !.pc = "find",
                                   !.participants = participants], MaxRoomEvents)
    /\ UNCHANGED <<users, chats, sock, rooms, inbox, now>>

\* existing = await Chat.findOne({ $all, $size })
CreateFind(h) ==
    /\ handlers[h].pc = "find"
    /\ LET r == handlers[h]
           m == FindOneChat(r.participants)
       IN handlers' = [handlers EXCEPT ![h] =
            IF m # 0
            THEN [r EXCEPT !.existing = chats[m], !.found = TRUE,
                           !.pc = "fan_user", !.i = 1]
            ELSE [r EXCEPT !.pc = "save"]]
    /\ UNCHANGED <<users, chats, sock, rooms, inbox, now>>

\* Mutant: the save adopts a matching chat stored since the find step.
CreateSaveUnlessStored(h) ==
    /\ handlers[h].pc = "save"
    /\ LET r == handlers[h]
           m == FindOneChat(r.participants)
           doc == IF m # 0 THEN chats[m]
                  ELSE [_id |-> ObjectId(Len(chats) + 1),
                        participants |-> r.participants, messages |-> <<>>]
       IN /\ chats' = IF m # 0 THEN chats ELSE Append(chats, doc)
          /\ handlers' = [handlers EXCEPT ![h] =
                [r EXCEPT !.existing = doc, !.pc = "link_find", !.i = 1]]
    /\ UNCHANGED <<users, sock, rooms, inbox, now>>

\* existing = new Chat({ participants, messages: [] }); await existing.save()
CreateSave(h) ==
    /\ handlers[h].pc = "save"
    /\ LET r == handlers[h]
           doc == [_id |-> ObjectId(Len(chats) + 1),
                   participants |-> r.participants, messages |-> <<>>]
       IN /\ chats' = Append(chats, doc)
          /\ handlers' = [handlers EXCEPT ![h] =
                [r EXCEPT !.existing = doc, !.pc = "link_find", !.i = 1]]
    /\ UNCHANGED <<users, sock, rooms, inbox, now>>

NextLink(r) ==
    IF r.i < Len(r.participants)
    THEN [r EXCEPT !.i = @ + 1, !.pc = "link_find"]
    ELSE [r EXCEPT !.i = 1, !.pc = "fan_user"]

\* Mutant: the link loop pushes the id without the includes test.
LinkFindNoIncludes(h) ==
    /\ handlers[h].pc = "link_find"
    /\ LET r == handlers[h]
           u == FindOneUser(r.participants[r.i])
       IN handlers' = [handlers EXCEPT ![h] =
            IF u # 0 THEN [r EXCEPT !.user = u, !.pc = "link_save"] ELSE NextLink(r)]
    /\ UNCHANGED <<users, chats, sock, rooms, inbox, now>>

\* user = await User.findOne({ email }); if (user && !user.chats.includes(_id))
LinkFind(h) ==
    /\ handlers[h].pc = "link_find"
    /\ LET r == handlers[h]
           u == FindOneUser(r.participants[r.i])
       IN handlers' = [handlers EXCEPT ![h] =
            IF u # 0 /\ r.existing._id \notin SeqToSet(users[u].chats)
            THEN [r EXCEPT !.user = u, !.pc = "link_save"]
            ELSE NextLink(r)]
    /\ UNCHANGED <<users, chats, sock, rooms, inbox, now>>

\* user.chats.push(existing._id); await user.save()   (an atomic $push)
LinkSave(h) ==
    /\ handlers[h].pc = "link_save"
    /\ LET r == handlers[h]
       IN /\ users' = [users EXCEPT ![r.user].chats = Append(@, r.existing._id)]
          /\ handlers' = [handlers EXCEPT ![h] = NextLink(r)]
    /\ UNCHANGED <<chats, sock, rooms, inbox, now>>

StructuredChat(r) ==
    [chatId |-> r.existing._id,
     participants |-> r.existing.participants,
     lastMessage |-> LastMessage(r.existing)]

\* Mutant: without the if (user) guard the loop pushes a list for every email.
FanUserUnguarded(h) ==
    /\ handlers[h].pc = "fan_user"
    /\ LET r == handlers[h]
           u == FindOneUser(r.participants[r.i])
       IN handlers' = [handlers EXCEPT ![h] =
            [r EXCEPT !.user = u,
                      !.userChats = IF u # 0 THEN users[u].chats ELSE <<>>,
                      !.pc = "fan_chats"]]
    /\ UNCHANGED <<users, chats, sock, rooms, inbox, now>>

\* Fan-out loop: user = await User.findOne({ email })
FanUser(h) ==
    /\ handlers[h].pc = "fan_user"
    /\ LET r == handlers[h]
           u == FindOneUser(r.participants[r.i])
       IN handlers' = [handlers EXCEPT ![h] =
            IF u # 0
            THEN [r EXCEPT !.user = u, !.userChats = users[u].chats, !.pc = "fan_chats"]
            ELSE IF r.i < Len(r.participants)
            THEN [r EXCEPT !.i = @ + 1]
            ELSE [r EXCEPT !.pc = "ack"]]
    /\ UNCHANGED <<users, chats, sock, rooms, inbox, now>>

\* Mutant: the pushed summaries carry the whole participants list, as the
\* chat_created payload does.
FanChatsUnfiltered(h) ==
    /\ handlers[h].pc = "fan_chats"
    /\ LET r == handlers[h]
           docs == FindChats(r.userChats)
       IN handlers' = [handlers EXCEPT ![h] =
            [r EXCEPT !.chatList =
                          [k \in 1..Len(docs) |->
                              [chatId |-> docs[k]._id,
                               participants |-> docs[k].participants,
                               lastMessage |-> LastMessage(docs[k])]],
                      !.pc = "fan_emit"]]
    /\ UNCHANGED <<users, chats, sock, rooms, inbox, now>>

\* chats = await Chat.find({ _id: { $in: user.chats } })
FanChats(h) ==
    /\ handlers[h].pc = "fan_chats"
    /\ LET r == handlers[h]
       IN handlers' = [handlers EXCEPT ![h] =
            [r EXCEPT !.chatList = ChatList(FindChats(r.userChats), r.participants[r.i]),
                      !.pc = "fan_emit"]]
    /\ UNCHANGED <<users, chats, sock, rooms, inbox, now>>

\* io.to(email).emit('chatlist_updated', chatList); after the last participant
\* the same synchronous run emits chat_created.
FanEmit(h) ==
    /\ handlers[h].pc = "fan_emit"
    /\ LET r == handlers[h]
           email == r.participants[r.i]
           ib == Deliver(inbox, email, h, "chatlist_updated", r.chatList)
           r1 == Emitted(r, "chatlist_updated", email, r.chatList)
       IN IF r.i < Len(r.participants)
          THEN /\ inbox' = ib
               /\ handlers' = [handlers EXCEPT ![h] =
                     [r1 EXCEPT !.i = @ + 1, !.pc = "fan_user"]]
          ELSE /\ inbox' = DeliverTo(ib, r.conn, h, "chat_created", StructuredChat(r))
               /\ handlers' = [handlers EXCEPT ![h] =
                     Done(Emitted(r1, "chat_created", r.conn, StructuredChat(r)))]
    /\ UNCHANGED <<users, chats, sock, rooms, now>>

\* socket.emit('chat_created', structuredChat) when the last participant has no user
CreateAck(h) ==
    /\ handlers[h].pc = "ack"
    /\ LET r == handlers[h]
       IN /\ inbox' = DeliverTo(inbox, r.conn, h, "chat_created", StructuredChat(r))
          /\ handlers' = [handlers EXCEPT ![h] =
                Done(Emitted(r, "chat_created", r.conn, StructuredChat(r)))]
    /\ UNCHANGED <<users, chats, sock, rooms, now>>

\* --- socket.on('send_message', async ({ chatId, sender, text }) => ...)

Message(sender, text) == [sender |-> sender, text |-> text, timestamp |-> "date"]

SendMessage(c, chatId, sender, text) ==
    /\ sock[c] = "open"
    /\ StartedWithin([Blank EXCEPT !.kind = "send_message", !.conn = c,
                                   !.pc = "find_chat", !.chatId = chatId,
                                   !.sender = sender, !.text = text], MaxRoomEvents)
    /\ UNCHANGED <<users, chats, sock, rooms, inbox, now>>

\* Mutant: without the early return a miss goes on to the broadcast.
SendFindNoReturn(h) ==
    /\ handlers[h].pc = "find_chat"
    /\ LET r == handlers[h]
           m == FindById(r.chatId)
       IN handlers' = [handlers EXCEPT ![h] =
            IF m = 0 THEN [r EXCEPT !.pc = "emit_msg"]
            ELSE [r EXCEPT !.existing = chats[m], !.found = TRUE, !.pc = "save_msg"]]
    /\ UNCHANGED <<users, chats, sock, rooms, inbox, now>>

\* chat = await Chat.findById(chatId); if (!chat) return
SendFind(h) ==
    /\ handlers[h].pc = "find_chat"
    /\ LET r == handlers[h]
           m == FindById(r.chatId)
       IN handlers' = [handlers EXCEPT ![h] =
            IF m = 0 THEN Done(r)
            ELSE [r EXCEPT !.existing = chats[m], !.found = TRUE, !.pc = "save_msg"]]
    /\ UNCHANGED <<users, chats, sock, rooms, inbox, now>>

\* Mutant: the save writes the whole message list of the document it loaded.
SendSaveLoadedList(h) ==
    /\ handlers[h].pc = "save_msg"
    /\ LET r == handlers[h]
           m == FindById(r.chatId)
       IN /\ chats' = [chats EXCEPT ![m].messages =
                           Append(r.existing.messages, Message(r.sender, r.text))]
          /\ handlers' = [handlers EXCEPT ![h] = [r EXCEPT !.pc = "emit_msg"]]
    /\ UNCHANGED <<users, sock, rooms, inbox, now>>

\* Mutant: the message is pushed to the loaded document and never saved.
SendSaveSkipped(h) ==
    /\ handlers[h].pc = "save_msg"
    /\ handlers' = [handlers EXCEPT ![h] = [handlers[h] EXCEPT !.pc = "emit_msg"]]
    /\ UNCHANGED <<users, chats, sock, rooms, inbox, now>>

\* chat.messages.push(message); await chat.save()   (an atomic $push)
SendSave(h) ==
    /\ handlers[h].pc = "save_msg"
    /\ LET r == handlers[h]
           m == FindById(r.chatId)
       IN /\ chats' = [chats EXCEPT ![m].messages = Append(@, Message(r.sender, r.text))]
          /\ handlers' = [handlers EXCEPT ![h] = [r EXCEPT !.pc = "emit_msg"]]
    /\ UNCHANGED <<users, sock, rooms, inbox, now>>

\* Mutant: socket.to(chatId).emit, which leaves out the sending socket.
SendEmitToOthers(h) ==
    /\ handlers[h].pc = "emit_msg"
    /\ LET r == handlers[h]
           msg == Message(r.sender, r.text)
           ib == Deliver(inbox, r.chatId, h, "receive_message", msg)
       IN /\ inbox' = [ib EXCEPT ![r.conn] = inbox[r.conn]]
          /\ handlers' = [handlers EXCEPT ![h] =
                Done(Emitted(r, "receive_message", r.chatId, msg))]
    /\ UNCHANGED <<users, chats, sock, rooms, now>>

\* io.to(chatId).emit('receive_message', { ...message, timestamp: new Date() })
SendEmit(h) ==
    /\ handlers[h].pc = "emit_msg"
    /\ LET r == handlers[h]
           msg == Message(r.sender, r.text)
       IN /\ inbox' = Deliver(inbox, r.chatId, h, "receive_message", msg)
          /\ handlers' = [handlers EXCEPT ![h] =
                Done(Emitted(r, "receive_message", r.chatId, msg))]
    /\ UNCHANGED <<users, chats, sock, rooms, now>>

\* --- app.post('/register', ...)

\* if (!email || !password) 400, before the try block
Register(email, password) ==
    /\ LET r == [Blank EXCEPT !.kind = "register", !.email = email, !.text = password]
       IN IF email = "" \/ password = ""
          THEN Handled([r EXCEPT !.status = 400])
          ELSE Started([r EXCEPT !.pc = "reg_find"])
    /\ UNCHANGED <<users, chats, sock, rooms, inbox, now>>

\* Mutant: the handler saves without looking at what findOne returned.
RegisterFindNoCheck(h) ==
    /\ handlers[h].pc = "reg_find"
    /\ handlers' = [handlers EXCEPT ![h] = [handlers[h] EXCEPT !.pc = "reg_save"]]
    /\ UNCHANGED <<users, chats, sock, rooms, inbox, now>>

\* exists = await User.findOne({ email }); if (exists) 400
RegisterFind(h) ==
    /\ handlers[h].pc = "reg_find"
    /\ LET r == handlers[h]
       IN handlers' = [handlers EXCEPT ![h] =
            IF FindOneUser(r.email) # 0
            THEN Done([r EXCEPT !.status = 400])
            ELSE [r EXCEPT !.pc = "reg_save"]]
    /\ UNCHANGED <<users, chats, sock, rooms, inbox, now>>

\* user = new User({ email, password: hashed }); await user.save(); 201
RegisterSave(h) ==
    /\ handlers[h].pc = "reg_save"
    /\ LET r == handlers[h]
       IN /\ users' = Append(users, [email |-> r.email, password |-> Hash(r.text),
                                     chats |-> <<>>])
          /\ handlers' = [handlers EXCEPT ![h] = Done([r EXCEPT !.status = 201])]
    /\ UNCHANGED <<chats, sock, rooms, inbox, now>>

\* --- app.post('/login', ...)

LoginBodies ==
    {[email |-> "b", password |-> "pw"], [email |-> "b", password |-> "guess"],
     [email |-> "a", password |-> "pw"]}

Login(email, password) ==
    /\ StartedWithin([Blank EXCEPT !.kind = "login", !.pc = "login_find",
                                   !.email = email, !.text = password], MaxRequests)
    /\ UNCHANGED <<users, chats, sock, rooms, inbox, now>>

\* user = await User.findOne({ email }); if (!user || !user.password) 404
LoginFind(h) ==
    /\ handlers[h].pc = "login_find"
    /\ LET r == handlers[h]
           u == FindOneUser(r.email)
       IN handlers' = [handlers EXCEPT ![h] =
            IF u = 0 THEN Done([r EXCEPT !.status = 404])
            ELSE [r EXCEPT !.user = u, !.pc = "login_compare"]]
    /\ UNCHANGED <<users, chats, sock, rooms, inbox, now>>

\* isMatch = await bcrypt.compare(password, user.password); 401, or jwt.sign
LoginCompare(h) ==
    /\ handlers[h].pc = "login_compare"
    /\ LET r == handlers[h]
       IN handlers' = [handlers EXCEPT ![h] =
            IF Hash(r.text) # users[r.user].password
            THEN Done([r EXCEPT !.status = 401])
            ELSE Done([r EXCEPT !.status = 200,
                                !.token = Sign(r.email, JWT_SECRET, now)])]
    /\ UNCHANGED <<users, chats, sock, rooms, inbox, now>>

\* The tokens the login responses of this run carry.
IssuedTokens ==
    {handlers[h].token :
        h \in {k \in 1..Len(handlers) :
                  handlers[k].kind = "login" /\ handlers[k].status = 200}}

\* --- app.get('/chatlist', verifyToken, ...)

ChatListRequest(header) ==
    /\ LET v == VerifyToken(header, now)
           r == [Blank EXCEPT !.kind = "chatlist", !.authorization = header]
       IN IF v.status # 0
          THEN HandledWithin([r EXCEPT !.status = v.status], MaxRequests)
          ELSE StartedWithin([r EXCEPT !.pc = "get_user", !.email = v.email],
                             MaxRequests)
    /\ UNCHANGED <<users, chats, sock, rooms, inbox, now>>

\* GET /chatlist with a token of email that verifies.
GetChatList(email) ==
    /\ Len(handlers) < MaxEvents
    /\ ChatListRequest(<<"Bearer", Sign(email, JWT_SECRET, now)>>)

\* user = await User.findOne({ email: req.user?.email }); if (!user) 404
GetUser(h) ==
    /\ handlers[h].pc = "get_user"
    /\ LET r == handlers[h]
           u == FindOneUser(r.email)
       IN handlers' = [handlers EXCEPT ![h] =
            IF u = 0 THEN Done([r EXCEPT !.status = 404])
            ELSE [r EXCEPT !.user = u, !.userChats = users[u].chats, !.pc = "get_chats"]]
    /\ UNCHANGED <<users, chats, sock, rooms, inbox, now>>

\* chats = await Chat.find({ _id: { $in: user.chats } }); res.json(chatList)
GetChats(h) ==
    /\ handlers[h].pc = "get_chats"
    /\ LET r == handlers[h]
       IN handlers' = [handlers EXCEPT ![h] =
            [r EXCEPT !.chatList = ChatList(FindChats(r.userChats), r.email),
                      !.status = 200, !.pc = "done", !.i = 0, !.user = 0,
                      !.userChats = <<>>]]
    /\ UNCHANGED <<users, chats, sock, rooms, inbox, now>>

Hs == 1..Len(handlers)

Next ==
    \/ \E c \in FirstConns : Connect(c)
    \/ \E c \in Conns : Disconnect(c)
    \/ \E c \in Conns, email \in SocketEmails :
          Len(handlers) < MaxEvents /\ RegisterSocket(c, email)
    \/ \E c \in Conns, chatId \in JoinKeys :
          Len(handlers) < MaxEvents /\ JoinChat(c, chatId)
    \/ \E c \in Conns, participants \in ParticipantLists :
          Len(handlers) < MaxEvents /\ CreateChat(c, participants)
    \/ \E h \in Hs : CreateFind(h)
    \/ \E h \in Hs : CreateSave(h)
    \/ \E h \in Hs : LinkFind(h)
    \/ \E h \in Hs : LinkSave(h)
    \/ \E h \in Hs : FanUser(h)
    \/ \E h \in Hs : FanChats(h)
    \/ \E h \in Hs : FanEmit(h)
    \/ \E h \in Hs : CreateAck(h)
    \/ \E c \in Conns, chatId \in SendIds, sender \in Senders :
          Len(handlers) < MaxEvents /\ SendMessage(c, chatId, sender, "hi")
    \/ \E h \in Hs : SendFind(h)
    \/ \E h \in Hs : SendSave(h)
    \/ \E h \in Hs : SendEmit(h)
    \/ \E body \in RegisterBodies : Register(body.email, body.password)
    \/ \E h \in Hs : RegisterFind(h)
    \/ \E h \in Hs : RegisterSave(h)
    \/ \E email \in Registrants : GetChatList(email)
    \/ \E h \in Hs : GetUser(h)
    \/ \E h \in Hs : GetChats(h)
    \/ \E h \in Hs : Fail(h)
    \/ \E h \in Hs : ServerError(h)

Spec == Init /\ [][Next]_vars

\* The clock advances by one tick.
Tick ==
    /\ now < MaxTime
    /\ now' = now + 1
    /\ UNCHANGED <<users, chats, sock, rooms, inbox, handlers>>

\* The REST surface alone, with the clock running.
AuthNext ==
    \/ \E body \in RegisterBodies : Register(body.email, body.password)
    \/ \E h \in Hs : RegisterFind(h)
    \/ \E h \in Hs : RegisterSave(h)
    \/ \E body \in LoginBodies : Login(body.email, body.password)
    \/ \E h \in Hs : LoginFind(h)
    \/ \E h \in Hs : LoginCompare(h)
    \/ \E header \in Authorizations(IssuedTokens \cup ForgedTokens) :
          ChatListRequest(header)
    \/ \E h \in Hs : GetUser(h)
    \/ \E h \in Hs : GetChats(h)
    \/ \E h \in Hs : ServerError(h)
    \/ Tick

AuthSpec == Init /\ [][AuthNext]_vars

\* The rooms alone, over the store an earlier run left: connections come and
\* go, register and join, while messages are sent to chat id1 and create_chat
\* of ["a","b"] finds that chat and pushes the list of "b".
RoomInit == Init /\ users = EarlierStore.users

RoomNext ==
    \/ \E c \in Conns : Connect(c)
    \/ \E c \in Conns : Disconnect(c)
    \/ \E c \in Conns : RegisterSocket(c, "b")
    \/ \E c \in Conns : JoinChat(c, "id1")
    \/ \E c \in FirstConns : CreateChat(c, <<"a", "b">>)
    \/ \E h \in Hs : CreateFind(h)
    \/ \E h \in Hs : FanUser(h)
    \/ \E h \in Hs : FanChats(h)
    \/ \E h \in Hs : FanEmit(h)
    \/ \E c \in FirstConns : SendMessage(c, "id1", "a", "hi")
    \/ \E h \in Hs : SendFind(h)
    \/ \E h \in Hs : SendSave(h)
    \/ \E h \in Hs : SendEmit(h)

RoomSpec == RoomInit /\ [][RoomNext]_vars

\* ---------------------------------------------------------------- claims

IsCreate(h) == handlers[h].kind = "create_chat"
IsSend(h) == handlers[h].kind = "send_message"
Finished(h) == handlers[h].pc = "done"
NoRepeat(s) == Cardinality(SeqToSet(s)) = Len(s)

\* The events of type that handler h has emitted, in order.
RECURSIVE OfType(_, _)
OfType(out, type) ==
    IF out = <<>> THEN <<>>
    ELSE (IF Head(out).type = type THEN <<Head(out)>> ELSE <<>>) \o OfType(Tail(out), type)

\* The events of type that connection c received from handler h, in order.
RECURSIVE Received(_, _, _)
Received(ib, h, type) ==
    IF ib = <<>> THEN <<>>
    ELSE (IF Head(ib).ev = h /\ Head(ib).type = type THEN <<Head(ib)>> ELSE <<>>)
         \o Received(Tail(ib), h, type)

\* C1 (as claimed): a stored chat that create_chat returns has a participant
\* set equal to the set of the requested emails; a chat with participants
\* {A,B,C} is never returned for a request whose distinct emails are {A,B}.
C1_FoundHasRequestedSet ==
    \A h \in Hs :
        (IsCreate(h) /\ handlers[h].found) =>
            SeqToSet(handlers[h].existing.participants) = SeqToSet(handlers[h].participants)

\* Handler g returned before handler h arrived, and no other handler ran
\* while either of them did.
InTurn(g, h) ==
    /\ g < h
    /\ Finished(g) /\ Finished(h)
    /\ handlers[g].solo /\ handlers[h].solo

C2_SameChatTwice ==
    \A g, h \in Hs :
        (IsCreate(g) /\ IsCreate(h) /\ InTurn(g, h)
           /\ NoRepeat(handlers[g].participants) /\ NoRepeat(handlers[h].participants)) =>
            IF SeqToSet(handlers[g].participants) = SeqToSet(handlers[h].participants)
            THEN /\ handlers[h].existing._id = handlers[g].existing._id
                 /\ handlers[h].found
            ELSE handlers[h].existing._id # handlers[g].existing._id

C2_FoundChangesNothing ==
    \A h \in Hs :
        (IsCreate(h) /\ handlers[h].found /\ handlers'[h] # handlers[h]) =>
            /\ chats' = chats
            /\ users' = users

\* C2: when handlers do not overlap, two create_chat events with the same
\* participants (in either order, no email repeated) yield the same chat id,
\* and a create_chat with a different set of participants yields a different
\* id; a create_chat that found its chat stores no chat, changes no chat and
\* changes no user's chats list.
C2_FindOrCreateIdempotent ==
    []C2_SameChatTwice /\ [][C2_FoundChangesNothing]_vars

\* Witness of C2: ["a","b"] created a chat, ["b","a"] then found that chat.
C2_Witness ==
    \E g, h \in Hs :
        /\ IsCreate(g) /\ IsCreate(h) /\ InTurn(g, h)
        /\ handlers[g].participants = <<"a", "b">>
        /\ handlers[h].participants = <<"b", "a">>
        /\ ~handlers[g].found /\ handlers[h].found
        /\ handlers[h].existing._id = handlers[g].existing._id

\* Two stored chats whose participant lists hold the same emails.
DuplicateChats ==
    \E j, k \in 1..Len(chats) :
        /\ j < k
        /\ SeqToSet(chats[j].participants) = SeqToSet(chats[k].participants)
        /\ Len(chats[j].participants) = Len(chats[k].participants)

PastSave(h) ==
    /\ ~handlers[h].found /\ handlers[h].pc \notin {"find", "save"}
    /\ handlers[h].existing # NoDoc

\* Handlers g and h were asked for the same participants, neither found a chat
\* and both have saved one: each ran its find step before the other saved.
Raced(g, h) ==
    /\ g # h /\ IsCreate(g) /\ IsCreate(h)
    /\ SeqToSet(handlers[g].participants) = SeqToSet(handlers[h].participants)
    /\ Len(handlers[g].participants) = Len(handlers[h].participants)
    /\ PastSave(g) /\ PastSave(h)

C3_RaceStoresTwo ==
    \A g, h \in Hs :
        Raced(g, h) =>
            /\ handlers[g].existing._id # handlers[h].existing._id
            /\ FindById(handlers[g].existing._id) # 0
            /\ FindById(handlers[h].existing._id) # 0
            /\ DuplicateChats

\* C3: two create_chat handlers for the same participants that both ran their
\* find step before either saved each store a chat, so two stored chats have
\* identical participants; no later step removes or merges them.
C3_DuplicateChatRace ==
    []C3_RaceStoresTwo /\ [][DuplicateChats => DuplicateChats']_vars

\* Witness of C3: both racing handlers returned, each with a chat of its own.
C3_Witness ==
    \E g, h \in Hs :
        /\ Raced(g, h) /\ Finished(g) /\ Finished(h)
        /\ handlers[g].existing._id # handlers[h].existing._id
        /\ DuplicateChats

\* The send_message handlers whose save of a message to chat k has completed.
Persisters(k) ==
    {h \in Hs : /\ IsSend(h) /\ handlers[h].found
                /\ handlers[h].chatId = chats[k]._id
                /\ handlers[h].pc \in {"emit_msg", "done"}}

C4_OnePerSend ==
    \A k \in 1..Len(chats) :
        /\ Len(chats[k].messages) = Cardinality(Persisters(k))
        /\ \A h \in Persisters(k) :
              \E n \in 1..Len(chats[k].messages) :
                  chats[k].messages[n] = Message(handlers[h].sender, handlers[h].text)

C4_AppendOnly ==
    /\ Len(chats') >= Len(chats)
    /\ \A k \in 1..Len(chats) :
          /\ chats'[k]._id = chats[k]._id
          /\ chats'[k].participants = chats[k].participants
          /\ \/ chats'[k].messages = chats[k].messages
             \/ /\ Len(chats'[k].messages) = Len(chats[k].messages) + 1
                /\ SubSeq(chats'[k].messages, 1, Len(chats[k].messages)) = chats[k].messages

\* C4: in every interleaving of send_message and create_chat handlers a chat's
\* persisted message list changes only by one message appended at its end, and
\* every send_message whose save has completed has exactly one message in the
\* list, concurrent ones included.
C4_MessagesAppendOnly ==
    []C4_OnePerSend /\ [][C4_AppendOnly]_vars

\* Witness of C4: two overlapping send_message handlers to one chat have both
\* returned and the chat holds both messages.
C4_Witness ==
    \E g, h \in Hs, k \in 1..Len(chats) :
        /\ g # h /\ {g, h} \subseteq Persisters(k)
        /\ Finished(g) /\ Finished(h)
        /\ ~handlers[g].solo /\ ~handlers[h].solo
        /\ Len(chats[k].messages) = 2

\* Handler h is a send_message whose chatId matched no stored chat.
Missed(h) == IsSend(h) /\ Finished(h) /\ ~handlers[h].found

HeardFrom(c, h) == \E n \in 1..Len(inbox[c]) : inbox[c][n].ev = h

C5_NothingFromMiss ==
    \A h \in Hs :
        Missed(h) =>
            /\ handlers[h].out = <<>>
            /\ \A c \in Conns : ~HeardFrom(c, h)

C5_MissChangesNothing ==
    \A h \in Hs :
        (IsSend(h) /\ handlers[h].pc = "find_chat" /\ handlers'[h].pc = "done") =>
            /\ ~handlers'[h].found
            /\ chats' = chats
            /\ users' = users
            /\ inbox' = inbox

\* C5: a send_message whose chatId matches no stored chat returns from its
\* find step, changes no chat, emits nothing (no receive_message, no error
\* event) and no connection receives anything from it.
C5_SilentOnMissingChat ==
    []C5_NothingFromMiss /\ [][C5_MissChangesNothing]_vars

\* Witness of C5: the sender had joined the group of the chatId it then sent
\* to, no chat has that id, and the handler returned.
C5_Witness ==
    \E g, h \in Hs :
        /\ g < h /\ Missed(h)
        /\ handlers[g].kind = "join_chat"
        /\ handlers[g].conn = handlers[h].conn
        /\ handlers[g].chatId = handlers[h].chatId
        /\ sock[handlers[h].conn] = "open"
        /\ handlers[h].chatId \in rooms[handlers[h].conn]
        /\ FindById(handlers[h].chatId) = 0

\* Handler h is a send_message that found its chat, saved its message and returned.
Sent(h) == IsSend(h) /\ Finished(h) /\ handlers[h].found

Broadcast(h) ==
    [ev |-> h, type |-> "receive_message",
     payload |-> Message(handlers[h].sender, handlers[h].text)]

InGroup(c, key) == sock[c] = "open" /\ key \in rooms[c]

C6_SenderHears ==
    \A h \in Hs : Sent(h) => HeardFrom(handlers[h].conn, h)

C6_GroupHears ==
    \A h \in Hs :
        (IsSend(h) /\ handlers[h].pc = "emit_msg" /\ handlers'[h].pc = "done") =>
            \A c \in Conns :
                inbox'[c] = IF InGroup(c, handlers[h].chatId)
                            THEN Append(inbox[c], Broadcast(h))
                            ELSE inbox[c]

\* C6 (as claimed): the receive_message of a persisted send_message reaches
\* every connection in the chat's group, and the connection that sent the
\* event receives it.
C6_EchoToSender ==
    []C6_SenderHears /\ [][C6_GroupHears]_vars

C6_Emitted ==
    \A h \in Hs :
        Sent(h) =>
            handlers[h].out =
                <<[type |-> "receive_message", to |-> handlers[h].chatId,
                   payload |-> Message(handlers[h].sender, handlers[h].text)]>>

\* C6 (amended): a send_message that found its chat and saved its message
\* emits one receive_message to the chat's group; it is delivered once to
\* every connection that is in the group when the broadcast is made and to no
\* other, so the sender's connection receives it exactly when it is itself in
\* the group.
C6_EchoToGroupMembers ==
    []C6_Emitted /\ [][C6_GroupHears]_vars

\* Witness of C6: the sender had joined the chat and received its own message.
C6_Witness ==
    \E h \in Hs :
        /\ Sent(h)
        /\ InGroup(handlers[h].conn, handlers[h].chatId)
        /\ Received(inbox[handlers[h].conn], h, "receive_message") = <<Broadcast(h)>>

Created(h) == IsCreate(h) /\ Finished(h)

PushedTo(h, email) ==
    \E n \in 1..Len(handlers[h].out) :
        /\ handlers[h].out[n].type = "chatlist_updated"
        /\ handlers[h].out[n].to = email

\* C7 (as claimed): a create_chat event that completes has pushed a
\* chatlist_updated to the group of every email of its participants list.
C7_EveryParticipantPushed ==
    \A h \in Hs :
        Created(h) =>
            \A n \in 1..Len(handlers[h].participants) :
                PushedTo(h, handlers[h].participants[n])

\* Handler h takes a step from the program point pc.
StepsFrom(h, pc) ==
    /\ handlers[h].pc = pc
    /\ <<handlers'[h].pc, handlers'[h].i>> # <<handlers[h].pc, handlers[h].i>>
    /\ handlers'[h].pc # "failed"

ListPush(h) ==
    [ev |-> h, type |-> "chatlist_updated", payload |-> handlers[h].chatList]

\* The fan-out looks the participant up: with a user record it goes on to
\* compute and push the list, without one it emits nothing for this email.
C7_LookupDecides ==
    \A h \in Hs :
        (IsCreate(h) /\ StepsFrom(h, "fan_user")) =>
            /\ handlers'[h].out = handlers[h].out
            /\ inbox' = inbox
            /\ IF FindOneUser(handlers[h].participants[handlers[h].i]) # 0
               THEN handlers'[h].pc = "fan_chats" /\ handlers'[h].i = handlers[h].i
               ELSE \/ handlers'[h].pc = "fan_user" /\ handlers'[h].i = handlers[h].i + 1
                    \/ handlers'[h].pc = "ack"

C7_ListComputed ==
    \A h \in Hs :
        (IsCreate(h) /\ StepsFrom(h, "fan_chats")) =>
            /\ handlers'[h].pc = "fan_emit" /\ handlers'[h].i = handlers[h].i
            /\ handlers'[h].out = handlers[h].out
            /\ inbox' = inbox

\* The push is the next event the handler emits, and it is the next event that
\* every connection in the email's group receives.
C7_PushReachesGroup ==
    \A h \in Hs :
        (IsCreate(h) /\ StepsFrom(h, "fan_emit")) =>
            LET email == handlers[h].participants[handlers[h].i]
                n == Len(handlers[h].out) + 1
            IN /\ Len(handlers'[h].out) >= n
               /\ handlers'[h].out[n] =
                     [type |-> "chatlist_updated", to |-> email,
                      payload |-> handlers[h].chatList]
               /\ \A c \in Conns :
                     IF InGroup(c, email)
                     THEN /\ Len(inbox'[c]) > Len(inbox[c])
                          /\ SubSeq(inbox'[c], 1, Len(inbox[c]) + 1) =
                                Append(inbox[c], ListPush(h))
                     ELSE Received(inbox'[c], h, "chatlist_updated") =
                             Received(inbox[c], h, "chatlist_updated")

C7_PushedHaveUsers ==
    \A h \in Hs :
        IsCreate(h) =>
            /\ \A email \in Emails : PushedTo(h, email) => FindOneUser(email) # 0
            /\ Len(OfType(handlers[h].out, "chatlist_updated")) <= Len(handlers[h].participants)

\* C7 (amended): for each email of its participants list, in order, a
\* create_chat event looks up the user record; when one exists it computes that
\* user's list and pushes chatlist_updated to the email's group, where every
\* connection then in the group receives it; when none exists it pushes
\* nothing for that email.
C7_PushToRegisteredParticipants ==
    /\ []C7_PushedHaveUsers
    /\ [][C7_LookupDecides /\ C7_ListComputed /\ C7_PushReachesGroup]_vars

\* Witness of C7: a completed create_chat pushed to "b", a connection
\* registered under "b" received the push, and nothing was pushed to "a",
\* a participant without a user record.
C7_Witness ==
    \E h \in Hs, c \in Conns :
        /\ Created(h)
        /\ {"a", "b"} \subseteq SeqToSet(handlers[h].participants)
        /\ PushedTo(h, "b") /\ ~PushedTo(h, "a")
        /\ FindOneUser("a") = 0
        /\ InGroup(c, "b")
        /\ Received(inbox[c], h, "chatlist_updated") # <<>>

Acks(h) == OfType(handlers[h].out, "chat_created")

\* The events connection c received from handler h, of any type, in order.
RECURSIVE FromHandler(_, _)
FromHandler(ib, h) ==
    IF ib = <<>> THEN <<>>
    ELSE (IF Head(ib).ev = h THEN <<Head(ib)>> ELSE <<>>) \o FromHandler(Tail(ib), h)

C8_AckWhenDone(h) ==
    LET r == handlers[h]
        mine == FromHandler(inbox[r.conn], h)
    IN /\ Len(Acks(h)) = 1
       /\ r.out[Len(r.out)].type = "chat_created"
       /\ Acks(h)[1].to = r.conn
       /\ Acks(h)[1].payload.chatId = r.existing._id
       /\ FindById(r.existing._id) # 0
       /\ ChatMatches(chats[FindById(r.existing._id)], r.participants)
       /\ \A c \in Conns \ {r.conn} : Received(inbox[c], h, "chat_created") = <<>>
       /\ Len(Received(inbox[r.conn], h, "chat_created")) <= 1
       /\ sock[r.conn] = "open" =>
             /\ mine # <<>>
             /\ mine[Len(mine)] =
                   [ev |-> h, type |-> "chat_created", payload |-> Acks(h)[1].payload]
             /\ Len(Received(inbox[r.conn], h, "chat_created")) = 1

\* C8: a create_chat event emits chat_created exactly once, as the last of
\* its events (after its chatlist_updated pushes), to the socket that sent
\* the event and to no other connection, carrying the id of the stored chat
\* it found or created; before it returns it has emitted none.
C8_SingleAckToOriginator ==
    \A h \in Hs :
        IsCreate(h) =>
            IF Finished(h) THEN C8_AckWhenDone(h)
            ELSE /\ Acks(h) = <<>>
                 /\ \A c \in Conns : Received(inbox[c], h, "chat_created") = <<>>

\* Witness of C8: another connection is in a participant's group and received
\* the chatlist_updated of the event; only the originator got chat_created.
C8_Witness ==
    \E h \in Hs, d \in Conns :
        /\ Created(h) /\ d # handlers[h].conn
        /\ sock[d] = "open" /\ sock[handlers[h].conn] = "open"
        /\ Received(inbox[d], h, "chatlist_updated") # <<>>
        /\ Received(inbox[d], h, "chat_created") = <<>>
        /\ Len(Received(inbox[handlers[h].conn], h, "chat_created")) = 1

ListsChat(list, id) == \E j \in 1..Len(list) : list[j].chatId = id

\* C9 (as claimed): the chatId that chat_created carries is an entry of every
\* chatlist_updated list the same create_chat event pushed.
C9_AckInEveryPushedList ==
    \A h \in Hs :
        Created(h) =>
            \A n \in 1..Len(handlers[h].out) :
                handlers[h].out[n].type = "chatlist_updated" =>
                    ListsChat(handlers[h].out[n].payload, Acks(h)[1].payload.chatId)

\* The list GET /chatlist answers, and create_chat pushes, for the user of
\* email when its two reads see the current store.
ListFor(email) == ChatList(FindChats(users[FindOneUser(email)].chats), email)

ChatsOf(email) ==
    {chats[k]._id : k \in {j \in 1..Len(chats) : email \in SeqToSet(chats[j].participants)}}

\* C10 (as claimed): in every reachable state the chat list of an existing
\* user holds one summary for every stored chat whose participants include the
\* user and none for any other chat.
C10_ListHoldsEveryChat ==
    \A email \in Emails :
        FindOneUser(email) # 0 =>
            /\ {ListFor(email)[j].chatId : j \in 1..Len(ListFor(email))} = ChatsOf(email)
            /\ Len(ListFor(email)) = Cardinality(ChatsOf(email))

\* What the summary of the stored chat with this id has to show.
LastStored(id) ==
    LET msgs == chats[FindById(id)].messages
    IN IF msgs = <<>> THEN [text |-> "", timestamp |-> "null"] ELSE msgs[Len(msgs)]

SummariesShowLast(list) ==
    \A j \in 1..Len(list) :
        /\ FindById(list[j].chatId) # 0
        /\ list[j].lastMessage = LastStored(list[j].chatId)

C11_ListShowsLast ==
    \A email \in Emails : FindOneUser(email) # 0 => SummariesShowLast(ListFor(email))

\* The step that reads the chats computes the list from the store as it is then.
C11_ReadAtFind ==
    \A h \in Hs :
        (handlers[h].pc \in {"get_chats", "fan_chats"}
           /\ handlers'[h].pc \in {"done", "fan_emit"}
           /\ handlers'[h].status # 500) =>
            /\ chats' = chats
            /\ SummariesShowLast(handlers'[h].chatList)

\* C11: every summary of a chat list shows as lastMessage the last element of
\* the chat's persisted message list as it is when the chats are read, and the
\* placeholder (empty text, null timestamp) exactly when the list is empty.
C11_LastMessageIsLatest ==
    []C11_ListShowsLast /\ [][C11_ReadAtFind]_vars

\* Witness of C11: a send_message to chat id1 was persisted and returned, a
\* later GET /chatlist of the linked participant "b" shows it as lastMessage.
C11_Witness ==
    \E g, h \in Hs :
        /\ g < h /\ Sent(g) /\ handlers[g].chatId = "id1"
        /\ handlers[h].kind = "chatlist" /\ handlers[h].email = "b"
        /\ handlers[h].status = 200
        /\ Len(handlers[h].chatList) = 1
        /\ handlers[h].chatList[1].chatId = "id1"
        /\ handlers[h].chatList[1].lastMessage =
              Message(handlers[g].sender, handlers[g].text)

\* C12 (as claimed): in every reachable state, concurrent POST /register
\* requests for one email included, at most one user record has a given email.
C12_OneUserPerEmail ==
    \A j, k \in 1..Len(users) : users[j].email = users[k].email => j = k

IsRegister(h) == handlers[h].kind = "register"

\* A request without email or password is answered 400 as it arrives.
C13_MissingFieldRejected ==
    \A h \in 1..Len(handlers') :
        (h > Len(handlers) /\ handlers'[h].kind = "register"
           /\ (handlers'[h].email = "" \/ handlers'[h].text = "")) =>
            /\ handlers'[h].pc = "done" /\ handlers'[h].status = 400
            /\ users' = users /\ chats' = chats

\* The lookup of an email that has a user record ends the request with 400.
C13_ExistingRejected ==
    \A h \in Hs :
        (IsRegister(h) /\ handlers[h].pc = "reg_find" /\ handlers'[h].pc # "reg_find"
           /\ handlers'[h].status # 500 /\ FindOneUser(handlers[h].email) # 0) =>
            /\ handlers'[h].pc = "done" /\ handlers'[h].status = 400
            /\ users' = users

\* A user record is added by the save of a register handler that answers 201,
\* and by nothing else; stored emails and password hashes never change.
C13_OnlyCreatedAdds ==
    /\ Len(users') >= Len(users)
    /\ \A k \in 1..Len(users) :
          /\ users'[k].email = users[k].email
          /\ users'[k].password = users[k].password
    /\ Len(users') # Len(users) =>
          \E h \in Hs :
              /\ IsRegister(h) /\ handlers[h].pc = "reg_save"
              /\ handlers'[h].pc = "done" /\ handlers'[h].status = 201
              /\ users' = Append(users, [email |-> handlers[h].email,
                                         password |-> Hash(handlers[h].text),
                                         chats |-> <<>>])
    /\ \A h \in Hs :
          (IsRegister(h) /\ handlers'[h].status # handlers[h].status
             /\ handlers'[h].status # 201) => users' = users

C13_Answered ==
    \A h \in Hs :
        IsRegister(h) =>
            /\ (handlers[h].email = "" \/ handlers[h].text = "") =>
                  Finished(h) /\ handlers[h].status = 400
            /\ (Finished(h) /\ handlers[h].status = 400
                   /\ handlers[h].email # "" /\ handlers[h].text # "") =>
                  FindOneUser(handlers[h].email) # 0

\* C13: POST /register whose lookup finds a user record of the email answers
\* 400 and changes no user record; a request without email or password is
\* answered 400 as it arrives, without a store access; a user record is added
\* only by the save of a request that answers 201.
C13_RegisterRejections ==
    /\ []C13_Answered
    /\ [][C13_MissingFieldRejected /\ C13_ExistingRejected /\ C13_OnlyCreatedAdds]_vars

\* Witness of C13: POST /register for "b", who has a user record, was answered
\* 400 and the user store is as it was.
C13_Witness ==
    \E h \in Hs :
        /\ IsRegister(h) /\ Finished(h) /\ handlers[h].status = 400
        /\ handlers[h].email = "b" /\ handlers[h].text = "pw"
        /\ users = EarlierStore.users

IsJoin(h) == handlers[h].kind = "join_chat"

\* Every join_chat event puts its connection into the group of its chatId.
C14_JoinAdmits ==
    \A h \in 1..Len(handlers') :
        (h > Len(handlers) /\ handlers'[h].kind = "join_chat") =>
            rooms' = [rooms EXCEPT ![handlers'[h].conn] = @ \cup {handlers'[h].chatId}]

\* A connection stays in the groups it joined for as long as it is connected.
C14_StaysJoined ==
    \A h \in Hs :
        (IsJoin(h) /\ sock[handlers[h].conn] = "open") =>
            handlers[h].chatId \in rooms[handlers[h].conn]

\* The broadcast of a send_message reaches every connection in the group.
C14_MemberHears ==
    \A h \in Hs :
        (IsSend(h) /\ handlers[h].pc = "emit_msg" /\ handlers'[h].pc = "done") =>
            \A c \in Conns :
                InGroup(c, handlers[h].chatId) =>
                    inbox'[c] = Append(inbox[c], Broadcast(h))

\* C14: join_chat checks no membership: any connection that issues join_chat
\* with a chat's id is put into the chat's group, whatever it is registered
\* under, stays there while connected, and receives every receive_message
\* broadcast for the chat from then on.
C14_JoinWithoutMembership ==
    []C14_StaysJoined /\ [][C14_JoinAdmits /\ C14_MemberHears]_vars

\* Witness of C14: a connection registered under no email joined chat id1 of
\* "a" and "b" and received the message another connection sent to it.
C14_Witness ==
    \E g, h \in Hs, c \in Conns :
        /\ g < h /\ IsJoin(g) /\ handlers[g].conn = c /\ handlers[g].chatId = "id1"
        /\ Sent(h) /\ handlers[h].chatId = "id1" /\ handlers[h].conn # c
        /\ rooms[c] = {"id1"}
        /\ SeqToSet(chats[FindById("id1")].participants) = {"a", "b"}
        /\ Received(inbox[c], h, "receive_message") = <<Broadcast(h)>>

IsChatList(h) == handlers[h].kind = "chatlist"

\* Handler h of the next state is the request that arrives with this step.
Arrives(h, kind) == h > Len(handlers) /\ handlers'[h].kind = kind

\* The token is a JWT signed with the server's secret, not expired at the
\* time clock, and it carries an email claim.
Verifies(token, clock) ==
    /\ token.form = "jwt" /\ token.key = "yourSecretKey"
    /\ clock < token.exp
    /\ token.email # ""

\* What the middleware answers depends on the header and the clock alone.
C15_MiddlewareOutcome ==
    \A h \in 1..Len(handlers') :
        Arrives(h, "chatlist") =>
            LET r == handlers'[h]
                header == r.authorization
            IN /\ r.status = 401 <=> Len(header) < 2
               /\ r.status = 403 <=> (Len(header) >= 2 /\ ~Verifies(header[2], now))
               /\ r.status \in {401, 403} => r.pc = "done" /\ r.email = ""
               /\ r.status \notin {401, 403} =>
                     /\ r.status = 0 /\ r.pc = "get_user"
                     /\ r.email = header[2].email

\* The handler body answers 404 exactly when its lookup finds no user record.
C15_NotFound ==
    \A h \in Hs :
        (IsChatList(h) /\ handlers[h].pc = "get_user" /\ handlers'[h].pc # "get_user"
           /\ handlers'[h].status # 500) =>
            IF FindOneUser(handlers[h].email) = 0
            THEN handlers'[h].pc = "done" /\ handlers'[h].status = 404
            ELSE handlers'[h].pc = "get_chats" /\ handlers'[h].status = 0

\* No step of a GET /chatlist request changes a user or a chat.
C15_ReadOnly ==
    \A h \in 1..Len(handlers') :
        (handlers'[h].kind = "chatlist"
           /\ (h > Len(handlers) \/ handlers'[h].pc # handlers[h].pc)) =>
            users' = users /\ chats' = chats

\* A request that got past the middleware carries a token signed with the
\* secret, and runs under the email of that token.
C15_BodyHasIdentity ==
    \A h \in Hs :
        (IsChatList(h) /\ handlers[h].status \notin {401, 403}) =>
            /\ Len(handlers[h].authorization) >= 2
            /\ handlers[h].authorization[2].form = "jwt"
            /\ handlers[h].authorization[2].key = "yourSecretKey"
            /\ handlers[h].email = handlers[h].authorization[2].email
            /\ handlers[h].email # ""

\* C15: GET /chatlist answers 401 exactly when the Authorization header has
\* no second word, 403 exactly when it has one that is no JWT, is signed with
\* another key, is expired or has no email claim; otherwise the handler body
\* runs under the token's email and answers 404 exactly when no user record
\* has that email; no step of the request changes a user or a chat.
C15_ChatListOutcomes ==
    /\ []C15_BodyHasIdentity
    /\ [][C15_MiddlewareOutcome /\ C15_NotFound /\ C15_ReadOnly]_vars

\* Witness of C15: three requests were answered 401 (no header), 403 (a token
\* without an email claim) and 404 (a token that verifies, for "c", who has
\* no user record), and the store is as it was at the start.
C15_Witness ==
    \E f, g, h \in Hs :
        /\ IsChatList(f) /\ handlers[f].status = 401 /\ handlers[f].authorization = <<>>
        /\ IsChatList(g) /\ handlers[g].status = 403
        /\ handlers[g].authorization = <<"Bearer", Sign("", JWT_SECRET, 0)>>
        /\ IsChatList(h) /\ handlers[h].status = 404 /\ handlers[h].email = "c"
        /\ users = EarlierStore.users /\ chats = EarlierStore.chats

IsLogin(h) == handlers[h].kind = "login"

\* A login answers 200 for the password of a stored user, with a token for
\* the email of the request that expires one hour after it was issued.
C16_IssuedByLogin ==
    \A h \in Hs :
        (IsLogin(h) /\ handlers[h].status = 200) =>
            LET t == handlers[h].token
            IN /\ t.form = "jwt" /\ t.key = "yourSecretKey"
               /\ t.email = handlers[h].email /\ t.email # ""
               /\ t.iat <= now /\ t.exp = t.iat + 2
               /\ \E u \in 1..Len(users) :
                     /\ users[u].email = t.email
                     /\ users[u].password = <<"bcrypt", handlers[h].text>>

\* A request with a token of a login response passes the middleware exactly
\* when less than one hour (two ticks) has passed since the token was issued.
C16_AcceptedUntilExpiry ==
    \A h \in 1..Len(handlers') :
        (Arrives(h, "chatlist") /\ Len(handlers'[h].authorization) >= 2) =>
            LET t == handlers'[h].authorization[2]
            IN (\E g \in Hs : IsLogin(g) /\ handlers[g].status = 200
                                 /\ handlers[g].token = t) =>
                  IF now - t.iat < 2
                  THEN handlers'[h].pc = "get_user" /\ handlers'[h].email = t.email
                  ELSE handlers'[h].pc = "done" /\ handlers'[h].status = 403

\* C16: a token issued by a successful login is accepted by verifyToken at
\* every time less than one hour after its issuance and rejected at every
\* time from its expiry on, whatever the store and the other requests are.
C16_TokenLifetime ==
    []C16_IssuedByLogin /\ [][C16_AcceptedUntilExpiry]_vars

\* Witness of C16: the token of one login of "b" was presented twice: the
\* request before its expiry was answered 200, the one after it 403.
C16_Witness ==
    \E f, g, h \in Hs :
        /\ IsLogin(f) /\ handlers[f].status = 200 /\ handlers[f].email = "b"
        /\ IsChatList(g) /\ handlers[g].authorization = <<"Bearer", handlers[f].token>>
        /\ handlers[g].status = 200
        /\ IsChatList(h) /\ handlers[h].authorization = <<"Bearer", handlers[f].token>>
        /\ handlers[h].status = 403
        /\ now >= handlers[f].token.exp

\* The stored chat with this id holds a message of this sender and text.
Persisted(chatId, sender, text) ==
    /\ FindById(chatId) # 0
    /\ \E n \in 1..Len(chats[FindById(chatId)].messages) :
          /\ chats[FindById(chatId)].messages[n].sender = sender
          /\ chats[FindById(chatId)].messages[n].text = text

\* What a connection holds as receive_message came from a send_message
\* handler, carries its sender and text, and is in the chat it was sent to.
C17_DeliveredIsPersisted ==
    \A c \in Conns :
        \A n \in 1..Len(inbox[c]) :
            inbox[c][n].type = "receive_message" =>
                LET h == inbox[c][n].ev
                IN /\ IsSend(h)
                   /\ inbox[c][n].payload.sender = handlers[h].sender
                   /\ inbox[c][n].payload.text = handlers[h].text
                   /\ Persisted(handlers[h].chatId, handlers[h].sender, handlers[h].text)

\* A handler that has emitted has saved; one that has not saved, or that
\* failed, has emitted nothing and nothing of it was delivered.
C17_SavedBeforeEmitted ==
    \A h \in Hs :
        IsSend(h) =>
            /\ handlers[h].out # <<>> =>
                  Persisted(handlers[h].chatId, handlers[h].sender, handlers[h].text)
            /\ handlers[h].pc \in {"find_chat", "save_msg", "emit_msg", "failed"} =>
                  /\ handlers[h].out = <<>>
                  /\ \A c \in Conns : ~HeardFrom(c, h)

\* The step that delivers is the step after the save, and it stores nothing.
C17_EmitAfterSave ==
    \A h \in Hs :
        IsSend(h) =>
            /\ handlers'[h].out # handlers[h].out =>
                  /\ handlers[h].pc = "emit_msg"
                  /\ chats' = chats
                  /\ Persisted(handlers[h].chatId, handlers[h].sender, handlers[h].text)
            /\ (handlers[h].pc = "save_msg" /\ handlers'[h].pc # "save_msg") =>
                  inbox' = inbox

\* C17: every receive_message a connection holds is a message that the chat
\* of its group already held when it was delivered: a send_message handler
\* saves, then broadcasts, and one that has not saved or that failed has
\* broadcast nothing.
C17_PersistBeforeBroadcast ==
    /\ []C17_DeliveredIsPersisted
    /\ []C17_SavedBeforeEmitted
    /\ [][C17_EmitAfterSave]_vars

\* Witness of C17: a connection in the group of id1 holds the receive_message
\* of a send_message, and chat id1 holds the message.
C17_Witness ==
    \E h \in Hs, c \in Conns :
        /\ Sent(h) /\ handlers[h].chatId = "id1"
        /\ HeardFrom(c, h)
        /\ Persisted("id1", handlers[h].sender, handlers[h].text)
        /\ Len(chats[FindById("id1")].messages) = 1

\* How often id occurs in the list.
RECURSIVE Count(_, _)
Count(list, id) ==
    IF list = <<>> THEN 0
    ELSE (IF Head(list) = id THEN 1 ELSE 0) + Count(Tail(list), id)

\* C18 (as claimed): when a create_chat that found no chat finishes, one
\* stored chat has the new id, with the requested participants, the id is
\* exactly once in the chats list of every user record of a participant, and
\* in the chats list of no other user.
C18_NewChatLinkedToAll ==
    [][\A h \in Hs :
          (IsCreate(h) /\ ~handlers[h].found
             /\ handlers[h].pc # "done" /\ handlers'[h].pc = "done") =>
              LET id == handlers[h].existing._id
              IN /\ Cardinality({k \in 1..Len(chats') : chats'[k]._id = id}) = 1
                 /\ \A k \in 1..Len(chats') :
                       chats'[k]._id = id =>
                           chats'[k].participants = handlers[h].participants
                 /\ \A u \in 1..Len(users') :
                       Count(users'[u].chats, id) =
                           IF users'[u].email \in SeqToSet(handlers[h].participants)
                           THEN 1 ELSE 0]_vars

\* Handler h is a create_chat that stored a new chat and then stopped on a
\* rejected store operation.
StoppedAfterSave(h) ==
    /\ IsCreate(h) /\ handlers[h].pc = "failed"
    /\ ~handlers[h].found /\ handlers[h].existing # NoDoc

Linked(u, id) == id \in SeqToSet(users[u].chats)

\* The chat of h is stored, one participant's user record is linked to it
\* and another participant's user record is not.
PartlyLinked(h) ==
    /\ StoppedAfterSave(h)
    /\ FindById(handlers[h].existing._id) # 0
    /\ \E d, e \in SeqToSet(handlers[h].participants) :
          /\ FindOneUser(d) # 0 /\ Linked(FindOneUser(d), handlers[h].existing._id)
          /\ FindOneUser(e) # 0 /\ ~Linked(FindOneUser(e), handlers[h].existing._id)

C19_StoppedKeepsChat ==
    \A h \in Hs :
        StoppedAfterSave(h) =>
            /\ FindById(handlers[h].existing._id) # 0
            /\ chats[FindById(handlers[h].existing._id)].participants =
                  handlers[h].participants

\* A chats list grows only by the link save of the handler that created the
\* chat, so the links a stopped handler did not make are made by no one.
C19_OnlyCreatorLinks ==
    \A u \in 1..Len(users) :
        users'[u].chats # users[u].chats =>
            \E h \in Hs :
                /\ IsCreate(h) /\ handlers[h].pc = "link_save" /\ handlers[h].user = u
                /\ handlers'[h].pc # "failed"
                /\ users'[u].chats = Append(users[u].chats, handlers[h].existing._id)

C19_PartlyLinkedStays ==
    \A h \in Hs : PartlyLinked(h) => PartlyLinked(h)'

\* A participant with a user record that the stopped handler left unlinked
\* stays unlinked, whatever runs later (a create_chat of the same
\* participants finds the chat and skips the link loop).
C19_MissingLinkStays ==
    \A h \in Hs, e \in Emails :
        (StoppedAfterSave(h) /\ e \in SeqToSet(handlers[h].participants)
           /\ FindOneUser(e) # 0
           /\ ~Linked(FindOneUser(e), handlers[h].existing._id)) =>
            ~Linked(FindOneUser(e), handlers[h].existing._id)'

\* C19: a create_chat handler that stops on a rejected store operation after
\* it saved the new chat leaves the chat stored; when it stops between the
\* link saves, some participants with a user record are linked to the chat
\* and others are not, and no later step removes the chat or adds the links.
C19_PartialLinkPersists ==
    /\ []C19_StoppedKeepsChat
    /\ [][C19_OnlyCreatorLinks /\ C19_PartlyLinkedStays /\ C19_MissingLinkStays]_vars

\* Witness of C19: create_chat of ["a","b","c"] stored chat id2, linked "a"
\* and stopped on the lookup or save for "b": id2 is stored, in the chats
\* list of "a" and not in that of "b".
C19_Witness ==
    \E h \in Hs :
        /\ PartlyLinked(h)
        /\ handlers[h].participants = <<"a", "b", "c">>
        /\ Linked(FindOneUser("a"), handlers[h].existing._id)
        /\ ~Linked(FindOneUser("b"), handlers[h].existing._id)

\* Every entry of a chats list is the id of a stored chat that has the user's
\* email among its participants, and no list holds an id twice.
C20_ListsSound ==
    \A u \in 1..Len(users) :
        /\ NoRepeat(users[u].chats)
        /\ \A n \in 1..Len(users[u].chats) :
              /\ FindById(users[u].chats[n]) # 0
              /\ users[u].email \in
                    SeqToSet(chats[FindById(users[u].chats[n])].participants)

\* Users and chats are only added, and a chats list only grows at its end.
C20_NeverRemoved ==
    /\ Len(users') >= Len(users)
    /\ \A u \in 1..Len(users) :
          /\ users'[u].email = users[u].email
          /\ Len(users'[u].chats) >= Len(users[u].chats)
          /\ SubSeq(users'[u].chats, 1, Len(users[u].chats)) = users[u].chats
    /\ Len(chats') >= Len(chats)
    /\ \A k \in 1..Len(chats) :
          /\ chats'[k]._id = chats[k]._id
          /\ chats'[k].participants = chats[k].participants

\* C20: in every reachable state, in the middle of handlers and after a
\* handler has failed, every id in a user's chats list is the id of a stored
\* chat whose participants include the user's email and occurs once in the
\* list; no step removes a user, a chat or an entry of a chats list.
C20_ChatsListsSound ==
    []C20_ListsSound /\ [][C20_NeverRemoved]_vars

\* Witness of C20: a create_chat stopped after it linked "b" to the chat it
\* stored; the chats list of "b" holds two ids, both of stored chats with "b".
C20_Witness ==
    \E h \in Hs :
        /\ StoppedAfterSave(h)
        /\ FindOneUser("b") # 0
        /\ Linked(FindOneUser("b"), handlers[h].existing._id)
        /\ Len(users[FindOneUser("b")].chats) = 2
        /\ C20_ListsSound

IsRegisterSocket(h) == handlers[h].kind = "register_socket"

\* C21 (as claimed): every chatlist_updated a connection holds was pushed to
\* the group of an email the connection issued register_socket with (so a
\* connection that issued only join_chat events holds none), and every
\* receive_message a connection holds is of a chat it issued join_chat with.
C21_PushesOnlyToRegistered ==
    \A c \in Conns :
        \A n \in 1..Len(inbox[c]) :
            /\ inbox[c][n].type = "chatlist_updated" =>
                  \E g \in Hs :
                      /\ IsRegisterSocket(g) /\ handlers[g].conn = c
                      /\ PushedTo(inbox[c][n].ev, handlers[g].email)
            /\ inbox[c][n].type = "receive_message" =>
                  \E g \in Hs :
                      /\ IsJoin(g) /\ handlers[g].conn = c
                      /\ handlers[g].chatId = handlers[inbox[c][n].ev].chatId

\* C24 (as claimed): in every reachable state the sender of every persisted
\* message of a chat is an email of that chat's participants list.
C24_SenderIsParticipant ==
    \A k \in 1..Len(chats) :
        \A n \in 1..Len(chats[k].messages) :
            chats[k].messages[n].sender \in SeqToSet(chats[k].participants)

\* The list of summaries for email over the stored chats whose id is in ids:
\* the chat's id, its participants without email, its last message.
ExpectedList(ids, email) ==
    LET idx == SelectSeq([k \in 1..Len(chats) |-> k],
                         LAMBDA k : chats[k]._id \in SeqToSet(ids))
    IN [j \in 1..Len(idx) |->
          [chatId |-> chats[idx[j]]._id,
           participants |-> SelectSeq(chats[idx[j]].participants,
                                      LAMBDA p : p # email),
           lastMessage |-> IF chats[idx[j]].messages = <<>>
                           THEN [text |-> "", timestamp |-> "null"]
                           ELSE chats[idx[j]].messages[Len(chats[idx[j]].messages)]]]

\* Both handlers read the chats list of the first user record of the email.
C23_SameUserRead ==
    \A h \in Hs :
        /\ (IsChatList(h) /\ handlers[h].pc = "get_user"
               /\ handlers'[h].pc = "get_chats") =>
              handlers'[h].userChats = users[FindOneUser(handlers[h].email)].chats
        /\ (IsCreate(h) /\ handlers[h].pc = "fan_user"
               /\ handlers'[h].pc = "fan_chats") =>
              handlers'[h].userChats =
                  users[FindOneUser(handlers[h].participants[handlers[h].i])].chats

\* Both handlers map the chats they read to the same list of summaries.
C23_SameListComputed ==
    \A h \in Hs :
        /\ (IsChatList(h) /\ handlers[h].pc = "get_chats"
               /\ handlers'[h].pc = "done" /\ handlers'[h].status = 200) =>
              handlers'[h].chatList =
                  ExpectedList(handlers[h].userChats, handlers[h].email)
        /\ (IsCreate(h) /\ handlers[h].pc = "fan_chats"
               /\ handlers'[h].pc = "fan_emit") =>
              handlers'[h].chatList =
                  ExpectedList(handlers[h].userChats,
                               handlers[h].participants[handlers[h].i])

\* What create_chat pushes to the email's group is the list it computed.
C23_ComputedIsPushed ==
    \A h \in Hs :
        (IsCreate(h) /\ handlers[h].pc = "fan_emit" /\ handlers'[h].pc # "fan_emit") =>
            handlers'[h].out[Len(handlers[h].out) + 1] =
                [type |-> "chatlist_updated",
                 to |-> handlers[h].participants[handlers[h].i],
                 payload |-> handlers[h].chatList]

\* C23: over the same store and for the same user E, GET /chatlist with a
\* token of E and the chatlist_updated that create_chat pushes to E carry the
\* same list: the chats of E's user record, each with its id, its
\* participants without E and its last message.
C23_GetEqualsPush ==
    [][C23_SameUserRead /\ C23_SameListComputed /\ C23_ComputedIsPushed]_vars

\* Witness of C23: GET /chatlist of "b" answered a list of one chat, and a
\* create_chat that ran alone after it and changed no chat pushed that list
\* to the group of "b".
C23_Witness ==
    \E g, h \in Hs :
        /\ InTurn(g, h)
        /\ IsChatList(g) /\ handlers[g].email = "b" /\ handlers[g].status = 200
        /\ Len(handlers[g].chatList) = 1
        /\ Created(h) /\ handlers[h].found
        /\ \E n \in 1..Len(handlers[h].out) :
              handlers[h].out[n] =
                  [type |-> "chatlist_updated", to |-> "b",
                   payload |-> handlers[g].chatList]

\* The group key of a register_socket or join_chat event.
KeyOf(r) == IF r.kind = "register_socket" THEN r.email ELSE r.chatId

\* register_socket and join_chat add their key to the groups of their
\* connection, so a repeat changes nothing; they deliver nothing.
C22_JoinIsUnion ==
    \A h \in 1..Len(handlers') :
        (h > Len(handlers) /\ handlers'[h].kind \in {"register_socket", "join_chat"}) =>
            LET c == handlers'[h].conn
                key == KeyOf(handlers'[h])
            IN /\ rooms' = [rooms EXCEPT ![c] = @ \cup {key}]
               /\ key \in rooms[c] => rooms' = rooms
               /\ inbox' = inbox

\* A connection holds at most one delivery of each event a handler emitted.
C22_OnePerBroadcast ==
    \A c \in Conns, h \in Hs :
        \A type \in {"receive_message", "chatlist_updated", "chat_created"} :
            Len(Received(inbox[c], h, type)) <= Len(OfType(handlers[h].out, type))

\* A closed connection is in no group.
C22_ClosedInNoGroup ==
    \A c \in Conns : sock[c] = "closed" => rooms[c] = {}

\* A closed connection stays closed and receives nothing.
C22_ClosedReceivesNothing ==
    \A c \in Conns :
        sock[c] = "closed" => sock'[c] = "closed" /\ inbox'[c] = inbox[c]

\* What a connection receives in a step is what a handler emits in that very
\* step to a group the connection is in, or to the connection itself: an
\* event emitted earlier is delivered to no one later.
C22_NoReplay ==
    \A c \in Conns :
        /\ Len(inbox'[c]) >= Len(inbox[c])
        /\ SubSeq(inbox'[c], 1, Len(inbox[c])) = inbox[c]
        /\ \A n \in (Len(inbox[c]) + 1)..Len(inbox'[c]) :
              LET e == inbox'[c][n]
              IN /\ sock[c] = "open"
                 /\ \E m \in (Len(handlers[e.ev].out) + 1)..Len(handlers'[e.ev].out) :
                       LET o == handlers'[e.ev].out[m]
                       IN /\ o.type = e.type /\ o.payload = e.payload
                          /\ IF o.type = "chat_created" THEN o.to = c
                             ELSE o.to \in rooms[c]

\* C22: register_socket and join_chat may come any number of times in any
\* order, and a repeat with the same key leaves the groups of the connection
\* as they are, so each broadcast is delivered to it once; a disconnected
\* connection is in no group and receives nothing more; an event is
\* delivered only in the step that emits it, so what was broadcast while a
\* client was away is not delivered to the connection it comes back with.
C22_RoomLifecycle ==
    /\ []C22_OnePerBroadcast
    /\ []C22_ClosedInNoGroup
    /\ [][C22_JoinIsUnion /\ C22_ClosedReceivesNothing /\ C22_NoReplay]_vars

\* Witness of C22: connection 2 joined chat id1 and disconnected; a message
\* was then sent to id1 and broadcast; the client came back as connection 3
\* and joined id1: neither connection holds the message.
C22_Witness ==
    \E f, g, h \in Hs :
        /\ f < g /\ g < h
        /\ IsJoin(f) /\ handlers[f].conn = 2 /\ handlers[f].chatId = "id1"
        /\ Sent(g) /\ handlers[g].chatId = "id1" /\ handlers[g].conn = 1
        /\ IsJoin(h) /\ handlers[h].conn = 3 /\ handlers[h].chatId = "id1"
        /\ sock[2] = "closed" /\ InGroup(3, "id1")
        /\ inbox[2] = <<>> /\ inbox[3] = <<>>
====
